---- MODULE Spec2Model ----
(***************************************************************************)
(* UUID playground: the decoder analyzeUUID of the App component.          *)
(* A JavaScript string is modelled as a sequence of one-character strings, *)
(* an object as a record that has exactly the keys the code assigned.      *)
(***************************************************************************)
EXTENDS Integers, Sequences, FiniteSets, TLC

VARIABLES
  uuid, analysis, pc,            \* one call of analyzeUUID: argument, result, position
  tsRaw, tsVersion, tsResult, tsPc,
                                 \* one call of formatTimestamp: arguments, outcome, position
  genVersion, wallClock, genPc,  \* one call of generateUuid: argument, the clock the
                                 \* library reads (Unix ms, hex magnitude), position
  uuidToAnalyze, selectedVersion, quantity, generatedUuids, uuidAnalysis, isGenerating,
                                 \* the state of the App component
  pending,                       \* the handlers waiting at their await, in click order
  effectDue,                     \* uuidToAnalyze changed and the effect has not run yet
  made,                          \* how many UUIDs the handlers have generated
  cleared                        \* the UUIDs that were in the list at a click on Clear

analyzeVars == <<uuid, analysis, pc>>

formatVars == <<tsRaw, tsVersion, tsResult, tsPc>>

genVars == <<genVersion, wallClock, genPc>>

appVars == <<uuidToAnalyze, selectedVersion, quantity, generatedUuids, uuidAnalysis,
             isGenerating, pending, effectDue, made, cleared>>

vars == <<analyzeVars, formatVars, genVars, appVars>>

(***************************************************************************)
(* Characters                                                              *)
(***************************************************************************)
Digits == {"0", "1", "2", "3", "4", "5", "6", "7", "8", "9"}
LowerHex == {"a", "b", "c", "d", "e", "f"}
UpperHex == {"A", "B", "C", "D", "E", "F"}

\* the character class [0-9a-fA-F] of the pattern
HexClass == Digits \cup LowerHex \cup UpperHex

\* characters outside the class that the inputs use
OtherChars == {"g", "G"}

\* parseInt(c, 16) of a one-character string: the digit's value, NaN otherwise
NaN == "NaN"

parseIntHexChar(c) ==
  CASE c = "0" -> 0 [] c = "1" -> 1 [] c = "2" -> 2 [] c = "3" -> 3
    [] c = "4" -> 4 [] c = "5" -> 5 [] c = "6" -> 6 [] c = "7" -> 7
    [] c = "8" -> 8 [] c = "9" -> 9
    [] c \in {"a", "A"} -> 10 [] c \in {"b", "B"} -> 11
    [] c \in {"c", "C"} -> 12 [] c \in {"d", "D"} -> 13
    [] c \in {"e", "E"} -> 14 [] c \in {"f", "F"} -> 15
    [] OTHER -> NaN

\* a & b on non-negative integers
RECURSIVE BitAnd(_, _)
BitAnd(a, b) ==
  IF a = 0 \/ b = 0 THEN 0
  ELSE (IF a % 2 = 1 /\ b % 2 = 1 THEN 1 ELSE 0) + 2 * BitAnd(a \div 2, b \div 2)

(***************************************************************************)
(* String primitives                                                       *)
(***************************************************************************)
\* String.prototype.substring(start, end): indices clamped to 0..length and
\* swapped when start > end
Clamp(i, n) == IF i < 0 THEN 0 ELSE IF i > n THEN n ELSE i

substring(s, start, end) ==
  LET a == Clamp(start, Len(s))
      b == Clamp(end, Len(s))
      lo == IF a <= b THEN a ELSE b
      hi == IF a <= b THEN b ELSE a
  IN  SubSeq(s, lo + 1, hi)

\* s[i], undefined beyond the end
Undefined == "undefined"

charAt(s, i) == IF i >= 0 /\ i < Len(s) THEN s[i + 1] ELSE Undefined

\* uuid.replace(/-/g, '')
NotHyphen(c) == c # "-"

\* uuid.replace('-', ''): only the first hyphen goes
RECURSIVE replaceHyphens_FirstOnly(_)
replaceHyphens_FirstOnly(s) ==
  IF s = <<>> THEN <<>>
  ELSE IF Head(s) = "-" THEN Tail(s)
  ELSE <<Head(s)>> \o replaceHyphens_FirstOnly(Tail(s))

replaceHyphens(s) == SelectSeq(s, NotHyphen)

\* the pattern without its end anchor
testHex32_NoEndAnchor(s) == Len(s) >= 32 /\ \A i \in 1..32 : s[i] \in HexClass

\* /^[0-9a-fA-F]{32}$/.test(s)
testHex32(s) == Len(s) = 32 /\ \A i \in 1..Len(s) : s[i] \in HexClass

(***************************************************************************)
(* analyzeUUID                                                             *)
(***************************************************************************)
\* the record returned when the pattern does not match
invalidAnalysis_Clean(u, cleanUuid) == [isValid |-> FALSE, hexString |-> cleanUuid]

invalidAnalysis(u, cleanUuid) == [isValid |-> FALSE, hexString |-> u]

\* parseInt(cleanUuid[12], 16)
versionOf_Index13(cleanUuid) == parseIntHexChar(charAt(cleanUuid, 13))

versionOf(cleanUuid) == parseIntHexChar(charAt(cleanUuid, 12))

\* parseInt(cleanUuid[16], 16)
variantBitsOf(cleanUuid) == parseIntHexChar(charAt(cleanUuid, 16))

\* the if-chain on variantBits
variantOf_WrongMask(variantBits) ==
  IF BitAnd(variantBits, 8) = 0 THEN "Reserved (NCS)"
  ELSE IF BitAnd(variantBits, 14) = 8 THEN "RFC 4122"
  ELSE IF BitAnd(variantBits, 14) = 12 THEN "Microsoft"
  ELSE "Reserved"

variantOf_NoElse(variantBits) ==
  IF BitAnd(variantBits, 8) = 0 THEN "Reserved (NCS)"
  ELSE IF BitAnd(variantBits, 12) = 8 THEN "RFC 4122"
  ELSE IF BitAnd(variantBits, 14) = 12 THEN "Microsoft"
  ELSE "Unknown"

variantOf(variantBits) ==
  IF BitAnd(variantBits, 8) = 0 THEN "Reserved (NCS)"
  ELSE IF BitAnd(variantBits, 12) = 8 THEN "RFC 4122"
  ELSE IF BitAnd(variantBits, 14) = 12 THEN "Microsoft"
  ELSE "Reserved"

\* the object literal of the valid path
validAnalysis_Raw(u, version, variant, cleanUuid) ==
  [isValid |-> TRUE, version |-> version, variant |-> variant, hexString |-> u]

validAnalysis(u, version, variant, cleanUuid) ==
  [isValid |-> TRUE, version |-> version, variant |-> variant,
   hexString |-> cleanUuid]

\* obj.key = value, for several keys
Assign(obj, fields) == fields @@ obj

\* case 1
caseV1_Joined(a, cleanUuid) ==
  Assign(a, [timestamp |-> substring(cleanUuid, 0, 16),
             clockSeq |-> substring(cleanUuid, 16, 20),
             node |-> substring(cleanUuid, 20, 32)])

\* clockSeq: clockSeqLow alone
caseV1_ClockSeqLowOnly(a, cleanUuid) ==
  LET timeLow == substring(cleanUuid, 0, 8)
      timeMid == substring(cleanUuid, 8, 12)
      timeHi == substring(cleanUuid, 12, 16)
      clockSeqLow == substring(cleanUuid, 18, 20)
      node == substring(cleanUuid, 20, 32)
  IN  Assign(a, [timestamp |-> timeLow \o <<"-">> \o timeMid \o <<"-">> \o timeHi,
                 clockSeq |-> clockSeqLow,
                 node |-> node])

caseV1(a, cleanUuid) ==
  LET timeLow == substring(cleanUuid, 0, 8)
      timeMid == substring(cleanUuid, 8, 12)
      timeHi == substring(cleanUuid, 12, 16)
      clockSeqHi == substring(cleanUuid, 16, 18)
      clockSeqLow == substring(cleanUuid, 18, 20)
      node == substring(cleanUuid, 20, 32)
  IN  Assign(a, [timestamp |-> timeLow \o <<"-">> \o timeMid \o <<"-">> \o timeHi,
                 clockSeq |-> clockSeqHi \o clockSeqLow,
                 node |-> node])

\* case 4
caseV4_Tail(a, cleanUuid) == Assign(a, [randomBits |-> substring(cleanUuid, 12, 32)])

caseV4(a, cleanUuid) == Assign(a, [randomBits |-> cleanUuid])

\* case 7
caseV7_WithVersion(a, cleanUuid) ==
  Assign(a, [timestamp |-> substring(cleanUuid, 0, 13),
             randomBits |-> substring(cleanUuid, 12, 16) \o substring(cleanUuid, 16, 32)])

caseV7_RandomBOnly(a, cleanUuid) ==
  Assign(a, [timestamp |-> substring(cleanUuid, 0, 12),
             randomBits |-> substring(cleanUuid, 16, 32)])

caseV7(a, cleanUuid) ==
  LET timestampMs == substring(cleanUuid, 0, 12)
      randomA == substring(cleanUuid, 12, 16)
      randomB == substring(cleanUuid, 16, 32)
  IN  Assign(a, [timestamp |-> timestampMs, randomBits |-> randomA \o randomB])

\* switch (version)
switchVersion_V6AsV1(a, version, cleanUuid) ==
  CASE version \in {1, 6} -> caseV1(a, cleanUuid)
    [] version = 4 -> caseV4(a, cleanUuid)
    [] version = 7 -> caseV7(a, cleanUuid)
    [] OTHER -> a

switchVersion(a, version, cleanUuid) ==
  CASE version = 1 -> caseV1(a, cleanUuid)
    [] version = 4 -> caseV4(a, cleanUuid)
    [] version = 7 -> caseV7(a, cleanUuid)
    [] OTHER -> a

analyzeUUID(u) ==
  LET cleanUuid == replaceHyphens(u)
  IN  IF ~testHex32(cleanUuid) THEN invalidAnalysis(u, cleanUuid)
      ELSE LET version == versionOf(cleanUuid)
               variantBits == variantBitsOf(cleanUuid)
               variant == variantOf(variantBits)
           IN  switchVersion(validAnalysis(u, version, variant, cleanUuid),
                             version, cleanUuid)

(***************************************************************************)
(* Inputs of the decoder                                                   *)
(***************************************************************************)
\* how far an input's number of non-hyphen characters departs from 32
MaxDelta == 1

\* the longest run of hyphens put at one place
MaxRun == 2

UuidLen == 32

\* 82a7a5a1-c77c-4288-87e3-d2c3c3fbc339 without its hyphens
Sample == <<"8", "2", "a", "7", "a", "5", "a", "1", "c", "7", "7", "c",
            "4", "2", "8", "8", "8", "7", "e", "3", "d", "2", "c", "3",
            "c", "3", "f", "b", "c", "3", "3", "9">>

\* 32 digits of both cases, no two neighbours alike
Mixed == <<"0", "1", "2", "3", "4", "5", "6", "7", "8", "9", "a", "b",
           "c", "d", "e", "f", "F", "E", "D", "C", "B", "A", "9", "8",
           "7", "6", "5", "4", "3", "2", "1", "0">>

NotAUuid == <<"n", "o", "t", "-", "a", "-", "u", "u", "i", "d">>

\* s with the character at 0-based index i replaced by c
Put(s, i, c) == [k \in 1..Len(s) |-> IF k = i + 1 THEN c ELSE s[k]]

\* s cut or padded (with copies of c) to n characters
Resize(s, n, c) == [k \in 1..n |-> IF k <= Len(s) THEN s[k] ELSE c]

Run(m) == [k \in 1..m |-> "-"]

\* s with a run of m hyphens put before the character at each 0-based index
\* of gaps (index Len(s): at the end)
RECURSIVE Hyphenate(_, _, _, _)
Hyphenate(s, gaps, m, i) ==
  IF i > Len(s) THEN <<>>
  ELSE (IF i \in gaps THEN Run(m) ELSE <<>>)
       \o (IF i < Len(s) THEN <<s[i + 1]>> ELSE <<>>)
       \o Hyphenate(s, gaps, m, i + 1)

Canonical == {8, 12, 16, 20}

GapSets(n) == {{}, Canonical, {0}, {n}, {3, 17}, 0..n}

\* the version and variant characters range over every hex digit of either
\* case and over characters outside the class
Cores ==
  {Put(Put(Sample, 12, v), 16, r) : v \in HexClass \cup OtherChars,
                                    r \in HexClass \cup OtherChars}
  \cup {Mixed, Put(Mixed, 0, "g"), Put(Mixed, 31, "G"), Put(Mixed, 12, "1"),
        Put(Mixed, 12, "7"), Put(Mixed, 12, "4")}

Bodies ==
  {Resize(c, n, x) : c \in Cores, n \in (UuidLen - MaxDelta)..(UuidLen + MaxDelta),
                     x \in {"a"}}

Inputs ==
  {Hyphenate(b, g, m, 0) : b \in Bodies, g \in GapSets(UuidLen), m \in 1..MaxRun}
  \cup {NotAUuid, <<>>, <<"-">>}

(***************************************************************************)
(* One call of analyzeUUID                                                 *)
(***************************************************************************)
Null == [null |-> TRUE]

\* formatTimestamp is not called
FormatIdle ==
  /\ tsRaw = <<>>
  /\ tsVersion = 0
  /\ tsResult = [kind |-> "normal", value |-> <<>>]
  /\ tsPc = "idle"

GenerateIdle ==
  /\ genVersion = ""
  /\ wallClock = <<>>
  /\ genPc = "idle"

\* the App component as mounted (useState initial values), nothing clicked
AppIdle ==
  /\ uuidToAnalyze = <<>>
  /\ selectedVersion = "7"
  /\ quantity = 5
  /\ generatedUuids = <<>>
  /\ uuidAnalysis = Null
  /\ isGenerating = FALSE
  /\ pending = <<>>
  /\ effectDue = FALSE
  /\ made = 0
  /\ cleared = {}

Init ==
  /\ uuid \in Inputs
  /\ analysis = Null
  /\ pc = "call"
  /\ FormatIdle
  /\ GenerateIdle
  /\ AppIdle

Analyze ==
  /\ pc = "call"
  /\ analysis' = analyzeUUID(uuid)
  /\ pc' = "return"
  /\ UNCHANGED <<uuid, formatVars, genVars, appVars>>

Next == Analyze

Spec == Init /\ [][Next]_vars

(***************************************************************************)
(* Vocabulary of the properties, stated on the input text itself           *)
(***************************************************************************)
LowerDigits == <<"0", "1", "2", "3", "4", "5", "6", "7", "8", "9",
                 "a", "b", "c", "d", "e", "f">>

UpperDigits == <<"0", "1", "2", "3", "4", "5", "6", "7", "8", "9",
                 "A", "B", "C", "D", "E", "F">>

IsHexDigit(c) == \E n \in 1..16 : c = LowerDigits[n] \/ c = UpperDigits[n]

\* the value 0..15 of a hex digit
DigitValue(c) == (CHOOSE n \in 1..16 : c = LowerDigits[n] \/ c = UpperDigits[n]) - 1

\* the input with every hyphen removed
RECURSIVE Stripped(_)
Stripped(s) ==
  IF s = <<>> THEN <<>>
  ELSE IF Head(s) = "-" THEN Stripped(Tail(s))
  ELSE <<Head(s)>> \o Stripped(Tail(s))

\* hex[a:b], 0-based and half-open
Slice(s, a, b) == [k \in 1..(b - a) |-> s[a + k]]

NonHyphenCount(s) == Cardinality({i \in DOMAIN s : s[i] # "-"})

\* the input without its hyphens is 32 hex digits
WellFormed(s) ==
  /\ NonHyphenCount(s) = 32
  /\ \A i \in DOMAIN s : s[i] = "-" \/ IsHexDigit(s[i])

\* the value of the hex digit at 0-based position i of the stripped input
Nibble(s, i) == DigitValue(Stripped(s)[i + 1])

Has(rec, key) == key \in DOMAIN rec

Returned == pc = "return"

VersionFields == {"timestamp", "clockSeq", "node", "randomBits"}

SampleUuid == <<"8", "2", "a", "7", "a", "5", "a", "1", "-", "c", "7", "7", "c",
                "-", "4", "2", "8", "8", "-", "8", "7", "e", "3", "-", "d", "2",
                "c", "3", "c", "3", "f", "b", "c", "3", "3", "9">>

(***************************************************************************)
(* Properties of analyzeUUID                                               *)
(***************************************************************************)
\* C1: isValid is true exactly when the input without its hyphens is 32
\* characters long and all of them are hex digits; 31 or 33 hex characters,
\* or a character outside [0-9a-fA-F], give isValid = false.
C1_ValidIffHex32 ==
  Returned =>
    /\ analysis.isValid = WellFormed(uuid)
    /\ (NonHyphenCount(uuid) \in {31, 33} => analysis.isValid = FALSE)
    /\ ((\E i \in DOMAIN uuid : uuid[i] \in {"g", "G"}) => analysis.isValid = FALSE)

C1_Witness ==
  /\ Returned
  /\ analysis.isValid = FALSE
  /\ NonHyphenCount(uuid) = 33
  /\ \A i \in DOMAIN uuid : uuid[i] = "-" \/ IsHexDigit(uuid[i])

\* C2: a malformed input gives isValid = false, no version, variant,
\* timestamp, clock sequence, node or random bits, and hexString equal to the
\* input as passed in, hyphens included; "not-a-uuid" gives
\* {isValid: false, hexString: "not-a-uuid"}.
C2_MalformedKeepsInput ==
  Returned =>
    /\ (~WellFormed(uuid) =>
          /\ analysis.isValid = FALSE
          /\ DOMAIN analysis = {"isValid", "hexString"}
          /\ analysis.hexString = uuid)
    /\ (uuid = NotAUuid => analysis = [isValid |-> FALSE, hexString |-> NotAUuid])

C2_Witness ==
  /\ Returned
  /\ ~WellFormed(uuid)
  /\ \E i \in DOMAIN uuid : uuid[i] = "-"
  /\ NonHyphenCount(uuid) = 32
  /\ analysis.hexString = uuid

\* C3 as stated: for every input, valid or not, hexString is present and is
\* the input with its hyphens stripped.
C3_HexStringAlwaysStripped ==
  Returned => Has(analysis, "hexString") /\ analysis.hexString = Stripped(uuid)

\* C3 amended: hexString is always present; it is the input with its hyphens
\* stripped when isValid is true and the input as passed in when isValid is
\* false.
C3_HexStringStrippedIfValid ==
  Returned =>
    /\ Has(analysis, "hexString")
    /\ analysis.hexString = IF WellFormed(uuid) THEN Stripped(uuid) ELSE uuid

C3_Witness ==
  /\ Returned
  /\ WellFormed(uuid)
  /\ Len(uuid) = 36
  /\ Len(analysis.hexString) = 32

\* C4: version is present exactly when isValid is true, and is then the value
\* 0..15 of the hex digit at position 12 of the stripped input, whatever that
\* value is.
C4_VersionIsNibble12 ==
  Returned =>
    /\ Has(analysis, "version") = analysis.isValid
    /\ (WellFormed(uuid) => analysis.version = Nibble(uuid, 12))
    /\ (Has(analysis, "version") => analysis.version \in 0..15)

C4_Witness ==
  /\ Returned
  /\ WellFormed(uuid)
  /\ Stripped(uuid)[13] = "F"
  /\ analysis.version = 15

\* C5: for a valid input the hex digit at position 16 of the stripped input
\* gives the variant: 0x0..0x7 "Reserved (NCS)", 0x8..0xb "RFC 4122",
\* 0xc..0xd "Microsoft".
C5_VariantClasses ==
  Returned /\ WellFormed(uuid) =>
    /\ (Nibble(uuid, 16) \in 0..7 => analysis.variant = "Reserved (NCS)")
    /\ (Nibble(uuid, 16) \in 8..11 => analysis.variant = "RFC 4122")
    /\ (Nibble(uuid, 16) \in 12..13 => analysis.variant = "Microsoft")

C5_Witness ==
  /\ Returned
  /\ WellFormed(uuid)
  /\ Stripped(uuid)[17] = "B"
  /\ analysis.variant = "RFC 4122"

\* C6 as stated: for a valid input whose hex digit at position 16 is 0xe or
\* 0xf the variant is "Reserved (Future)", and the variant of every valid
\* record is one of Reserved (NCS), RFC 4122, Microsoft, Reserved (Future).
C6_ReservedFuture ==
  Returned /\ WellFormed(uuid) =>
    /\ (Nibble(uuid, 16) \in 14..15 => analysis.variant = "Reserved (Future)")
    /\ analysis.variant \in {"Reserved (NCS)", "RFC 4122", "Microsoft",
                             "Reserved (Future)"}

\* C6 amended: for a valid input whose hex digit at position 16 is 0xe or 0xf
\* the variant is reported as "Reserved", and the variant of every valid
\* record is one of the four labels "Reserved (NCS)", "RFC 4122",
\* "Microsoft", "Reserved".
C6_ReservedLabel ==
  Returned /\ WellFormed(uuid) =>
    /\ (Nibble(uuid, 16) \in 14..15 <=> analysis.variant = "Reserved")
    /\ analysis.variant \in {"Reserved (NCS)", "RFC 4122", "Microsoft", "Reserved"}

C6_Witness ==
  /\ Returned
  /\ WellFormed(uuid)
  /\ Stripped(uuid)[17] = "e"
  /\ analysis.variant = "Reserved"

\* C7: for a valid input with version nibble 1, timestamp is
\* hex[0:8] "-" hex[8:12] "-" hex[12:16] of the stripped input (the time-hi
\* group still begins with the version digit), clockSeq is hex[16:20], node is
\* hex[20:32], and randomBits is absent.
C7_Version1Fields ==
  Returned /\ WellFormed(uuid) /\ Nibble(uuid, 12) = 1 =>
    LET hex == Stripped(uuid)
    IN  /\ Has(analysis, "timestamp")
        /\ analysis.timestamp =
             Slice(hex, 0, 8) \o <<"-">> \o Slice(hex, 8, 12) \o <<"-">>
               \o Slice(hex, 12, 16)
        /\ Len(analysis.timestamp) = 18
        /\ analysis.timestamp[15] = "1"
        /\ Has(analysis, "clockSeq") /\ analysis.clockSeq = Slice(hex, 16, 20)
        /\ Has(analysis, "node") /\ analysis.node = Slice(hex, 20, 32)
        /\ ~Has(analysis, "randomBits")

C7_Witness ==
  /\ Returned
  /\ WellFormed(uuid)
  /\ Nibble(uuid, 12) = 1
  /\ Len(uuid) > 32
  /\ Has(analysis, "node")

\* C8: for a valid input with version nibble 4, randomBits is all 32 hex
\* digits of the stripped input and timestamp, clockSeq and node are absent;
\* "82a7a5a1-c77c-4288-87e3-d2c3c3fbc339" gives isValid = true, version = 4,
\* variant = "RFC 4122", randomBits = "82a7a5a1c77c428887e3d2c3c3fbc339".
C8_Version4Fields ==
  Returned =>
    /\ (WellFormed(uuid) /\ Nibble(uuid, 12) = 4 =>
          /\ Has(analysis, "randomBits")
          /\ analysis.randomBits = Stripped(uuid)
          /\ Len(analysis.randomBits) = 32
          /\ DOMAIN analysis \cap {"timestamp", "clockSeq", "node"} = {})
    /\ (uuid = SampleUuid =>
          /\ analysis.isValid = TRUE
          /\ analysis.version = 4
          /\ analysis.variant = "RFC 4122"
          /\ analysis.randomBits = Sample)

C8_Witness ==
  /\ Returned
  /\ uuid = SampleUuid
  /\ Has(analysis, "randomBits")

\* C9: for a valid input with version nibble 7, timestamp is hex[0:12] of the
\* stripped input, randomBits is hex[12:16] followed by hex[16:32], and
\* clockSeq and node are absent.
C9_Version7Fields ==
  Returned /\ WellFormed(uuid) /\ Nibble(uuid, 12) = 7 =>
    LET hex == Stripped(uuid)
    IN  /\ Has(analysis, "timestamp")
        /\ analysis.timestamp = Slice(hex, 0, 12)
        /\ Has(analysis, "randomBits")
        /\ analysis.randomBits = Slice(hex, 12, 16) \o Slice(hex, 16, 32)
        /\ DOMAIN analysis \cap {"clockSeq", "node"} = {}

C9_Witness ==
  /\ Returned
  /\ WellFormed(uuid)
  /\ Nibble(uuid, 12) = 7
  /\ Len(analysis.timestamp) = 12
  /\ Len(analysis.randomBits) = 20

\* C10: for a valid input whose version nibble is none of 1, 4, 7 the record
\* has isValid = true, version and variant, and no timestamp, clockSeq, node
\* or randomBits; in every valid record timestamp is present only for versions
\* 1 and 7, clockSeq and node only for version 1, randomBits only for versions
\* 4 and 7.
C10_OtherVersionsNoFields ==
  Returned /\ WellFormed(uuid) =>
    /\ (Nibble(uuid, 12) \notin {1, 4, 7} =>
          /\ analysis.isValid = TRUE
          /\ Has(analysis, "version") /\ Has(analysis, "variant")
          /\ DOMAIN analysis \cap VersionFields = {})
    /\ (Has(analysis, "timestamp") => Nibble(uuid, 12) \in {1, 7})
    /\ (Has(analysis, "clockSeq") => Nibble(uuid, 12) = 1)
    /\ (Has(analysis, "node") => Nibble(uuid, 12) = 1)
    /\ (Has(analysis, "randomBits") => Nibble(uuid, 12) \in {4, 7})

C10_Witness ==
  /\ Returned
  /\ WellFormed(uuid)
  /\ Nibble(uuid, 12) = 6
  /\ DOMAIN analysis = {"isValid", "version", "variant", "hexString"}

(***************************************************************************)
(* Numbers wider than 32 bits.  A magnitude is its hexadecimal digits      *)
(* (values 0..15), most significant first, without leading zeros; zero is  *)
(* the empty sequence.  A JavaScript Number or BigInt is a record          *)
(* [nan, neg, mag]: NaN, or the integer of sign neg and magnitude mag.     *)
(***************************************************************************)
\* the place of the first digit of m that is not 0, Len(m) + 1 when there is none
FirstNonZero(m) ==
  IF \A i \in DOMAIN m : m[i] = 0 THEN Len(m) + 1
  ELSE CHOOSE i \in DOMAIN m : m[i] # 0 /\ \A j \in 1..(i - 1) : m[j] = 0

MagTrim(m) == SubSeq(m, FirstNonZero(m), Len(m))

\* m with zeros put in front, up to n digits
MagPad(m, n) ==
  IF Len(m) >= n THEN m
  ELSE [k \in 1..n |-> IF k <= n - Len(m) THEN 0 ELSE m[k - (n - Len(m))]]

Max(a, b) == IF a >= b THEN a ELSE b

RECURSIVE MagOfInt(_)
MagOfInt(n) == IF n = 0 THEN <<>> ELSE MagOfInt(n \div 16) \o <<n % 16>>

\* the value of a magnitude below 2^31
RECURSIVE MagToInt(_)
MagToInt(m) ==
  IF m = <<>> THEN 0 ELSE 16 * MagToInt(SubSeq(m, 1, Len(m) - 1)) + m[Len(m)]

\* -1, 0 or 1 as a is below, equal to or above b: the longer is the larger,
\* and of two of one length the first digit that differs decides
MagCmp(a, b) ==
  IF Len(a) < Len(b) THEN -1
  ELSE IF Len(a) > Len(b) THEN 1
  ELSE IF a = b THEN 0
  ELSE LET f == CHOOSE i \in DOMAIN a : a[i] # b[i] /\ \A j \in 1..(i - 1) : a[j] = b[j]
       IN  IF a[f] < b[f] THEN -1 ELSE 1

\* a + b: a carry comes into digit i when a digit after it overflows and every
\* digit between the two passes the carry on
MagAdd(a, b) ==
  LET n == Max(Len(a), Len(b)) + 1
      x == MagPad(a, n)
      y == MagPad(b, n)
      carry(i) == IF \E j \in (i + 1)..n :
                       /\ x[j] + y[j] >= 16
                       /\ \A k \in (i + 1)..(j - 1) : x[k] + y[k] = 15
                  THEN 1 ELSE 0
  IN  MagTrim([i \in 1..n |-> (x[i] + y[i] + carry(i)) % 16])

\* a - b for a >= b: a borrow comes into digit i when a digit after it falls
\* short and every digit between the two passes the borrow on
MagSub(a, b) ==
  LET n == Max(Len(a), Len(b))
      x == MagPad(a, n)
      y == MagPad(b, n)
      borrow(i) == IF \E j \in (i + 1)..n :
                        /\ x[j] < y[j]
                        /\ \A k \in (i + 1)..(j - 1) : x[k] = y[k]
                   THEN 1 ELSE 0
  IN  MagTrim([i \in 1..n |-> (x[i] - y[i] - borrow(i)) % 16])

\* multiplication and division go three digits at a time
LimbCount(m) == (Len(m) + 2) \div 3

\* the value 0..4095 of the j-th group of three digits of x
Limb(x, j) == x[3 * j - 2] * 256 + x[3 * j - 1] * 16 + x[3 * j]

LimbDigits(v) == <<(v \div 256) % 16, (v \div 16) % 16, v % 16>>

\* a * k for 0 <= k <= 10000
RECURSIVE MagMulRec(_, _, _, _)
MagMulRec(x, k, j, carry) ==
  IF j = 0 THEN MagOfInt(carry)
  ELSE LET prod == Limb(x, j) * k + carry
       IN  IF prod < 4096 THEN MagMulRec(x, k, j - 1, 0) \o LimbDigits(prod)
           ELSE MagMulRec(x, k, j - 1, prod \div 4096) \o LimbDigits(prod)

MagMulSmall(a, k) ==
  MagTrim(MagMulRec(MagPad(a, 3 * LimbCount(a)), k, LimbCount(a), 0))

\* quotient and remainder of a by d, 0 < d <= 100000
RECURSIVE MagDivRec(_, _, _, _)
MagDivRec(x, d, j, rem) ==
  IF j > Len(x) \div 3 THEN [quot |-> <<>>, rem |-> rem]
  ELSE LET cur == rem * 4096 + Limb(x, j)
           rest == MagDivRec(x, d, j + 1, cur % d)
       IN  [quot |-> LimbDigits(cur \div d) \o rest.quot, rem |-> rest.rem]

MagDivMod(a, d) ==
  LET r == MagDivRec(MagPad(a, 3 * LimbCount(a)), d, 1, 0)
  IN  [quot |-> MagTrim(r.quot), rem |-> r.rem]

\* the magnitude written by a sequence of decimal digits, read three at a time
RECURSIVE MagOfDecimal(_)
MagOfDecimal(ds) ==
  IF Len(ds) <= 3
  THEN MagOfInt((IF Len(ds) >= 3 THEN 100 * ds[Len(ds) - 2] ELSE 0)
                + (IF Len(ds) >= 2 THEN 10 * ds[Len(ds) - 1] ELSE 0)
                + (IF Len(ds) >= 1 THEN ds[Len(ds)] ELSE 0))
  ELSE MagAdd(MagMulSmall(MagOfDecimal(SubSeq(ds, 1, Len(ds) - 3)), 1000),
              MagOfDecimal(SubSeq(ds, Len(ds) - 2, Len(ds))))

NotANumber == [nan |-> TRUE, neg |-> FALSE, mag |-> <<>>]

\* the integer of sign neg and magnitude m; zero has no sign
Num(neg, m) == [nan |-> FALSE, neg |-> neg /\ m # <<>>, mag |-> m]

NumOfInt(n) == IF n < 0 THEN Num(TRUE, MagOfInt(-n)) ELSE Num(FALSE, MagOfInt(n))

\* x - y
NumSub(x, y) ==
  IF x.neg # y.neg THEN Num(x.neg, MagAdd(x.mag, y.mag))
  ELSE IF MagCmp(x.mag, y.mag) >= 0 THEN Num(x.neg, MagSub(x.mag, y.mag))
  ELSE Num(~x.neg, MagSub(y.mag, x.mag))

\* x << (4 * digits)
NumShlDigits(x, digits) ==
  IF x.mag = <<>> THEN x ELSE Num(x.neg, x.mag \o [k \in 1..digits |-> 0])

\* x / d on BigInt: the quotient rounded towards zero
NumDivTrunc(x, d) == Num(x.neg, MagDivMod(x.mag, d).quot)

\* the two's complement of x on n hexadecimal digits (x modulo 16^n)
MagLow(m, n) == IF Len(m) <= n THEN MagPad(m, n) ELSE SubSeq(m, Len(m) - n + 1, Len(m))

Complement(ds) == [k \in 1..Len(ds) |-> 15 - ds[k]]

Twos(x, n) ==
  IF ~x.neg THEN MagLow(x.mag, n)
  ELSE Complement(MagLow(MagSub(x.mag, <<1>>), n))

\* the integer whose two's complement on Len(ds) digits is ds
OfTwos(ds) ==
  IF ds # <<>> /\ ds[1] >= 8 THEN Num(TRUE, MagAdd(MagTrim(Complement(ds)), <<1>>))
  ELSE Num(FALSE, MagTrim(ds))

\* a | b on digits 0..15
RECURSIVE BitOr(_, _)
BitOr(a, b) ==
  IF a = 0 THEN b
  ELSE IF b = 0 THEN a
  ELSE (IF a % 2 = 1 \/ b % 2 = 1 THEN 1 ELSE 0) + 2 * BitOr(a \div 2, b \div 2)

\* x | y on BigInt (two's complement of unbounded width)
NumOr(x, y) ==
  LET n == Max(Len(x.mag), Len(y.mag)) + 1
      a == Twos(x, n)
      b == Twos(y, n)
  IN  OfTwos([k \in 1..n |-> BitOr(a[k], b[k])])

\* x & mask on Number, for a mask of 0..2^31 - 1: both operands go through ToInt32
\* (NaN becomes 0); the result is an integer below 2^31
NumAndMask(x, mask) ==
  IF x.nan THEN 0
  ELSE LET a == Twos(x, 8)
           b == MagPad(MagOfInt(mask), 8)
       IN  MagToInt(MagTrim([k \in 1..8 |-> BitAnd(a[k], b[k])]))

(***************************************************************************)
(* parseInt(s, 16)                                                         *)
(***************************************************************************)
WhiteSpace == {" "}

RECURSIVE TrimStart(_)
TrimStart(s) == IF s # <<>> /\ Head(s) \in WhiteSpace THEN TrimStart(Tail(s)) ELSE s

\* the longest prefix of s made of hex digits
HexPrefix(s) ==
  IF \A i \in DOMAIN s : s[i] \in HexClass THEN s
  ELSE LET stop == CHOOSE i \in DOMAIN s :
                     s[i] \notin HexClass /\ \A j \in 1..(i - 1) : s[j] \in HexClass
       IN  SubSeq(s, 1, stop - 1)

\* leading white space is skipped, then a sign and a 0x prefix are accepted,
\* then the longest run of hex digits is read; NaN when that run is empty.
\* (The result is exact below 2^53; beyond, the rounded Number stays above
\* every bound it is compared with here.)
parseInt16(s) ==
  LET t == TrimStart(s)
      neg == t # <<>> /\ Head(t) = "-"
      u == IF t # <<>> /\ Head(t) \in {"+", "-"} THEN Tail(t) ELSE t
      v == IF Len(u) >= 2 /\ u[1] = "0" /\ u[2] \in {"x", "X"}
           THEN SubSeq(u, 3, Len(u)) ELSE u
      digits == HexPrefix(v)
  IN  IF digits = <<>> THEN NotANumber
      ELSE Num(neg, MagTrim([k \in 1..Len(digits) |-> parseIntHexChar(digits[k])]))

(***************************************************************************)
(* new Date(ms).toISOString()                                              *)
(***************************************************************************)
\* outcome of a block of code: a returned value, a thrown error, or neither
Return(v) == [kind |-> "return", value |-> v]

Throw == [kind |-> "throw", value |-> <<>>]

Completed == [kind |-> "normal", value |-> <<>>]

\* the range taken a thousand times too small, 8.64e12 ms
MaxTimeValue_Thousandth == MagOfDecimal(<<8, 6, 4, 0, 0, 0, 0, 0, 0, 0, 0, 0, 0>>)

\* the largest time value of a Date, 8.64e15 ms
MaxTimeValue == MagOfDecimal(<<8, 6, 4, 0, 0, 0, 0, 0, 0, 0, 0, 0, 0, 0, 0, 0>>)

\* new Date(n) holds a valid time value
validDate(n) == ~n.nan /\ MagCmp(n.mag, MaxTimeValue) <= 0

\* Day(t) and the milliseconds within the day, for a valid time value
dayAndTime(n) ==
  LET secs == MagDivMod(n.mag, 1000)
      days == MagDivMod(secs.quot, 86400)
      q == MagToInt(days.quot)
      rem == days.rem * 1000 + secs.rem
  IN  IF ~n.neg THEN [day |-> q, ms |-> rem]
      ELSE IF rem = 0 THEN [day |-> -q, ms |-> 0]
      ELSE [day |-> -q - 1, ms |-> 86400000 - rem]

\* year, month and day of the month of a day number (days since 1970-01-01)
civilFromDays(day) ==
  LET z == day + 719468
      era == z \div 146097
      doe == z - era * 146097
      yoe == (doe - doe \div 1460 + doe \div 36524 - doe \div 146096) \div 365
      doy == doe - (365 * yoe + yoe \div 4 - yoe \div 100)
      mp == (5 * doy + 2) \div 153
      d == doy - (153 * mp + 2) \div 5 + 1
      m == IF mp < 10 THEN mp + 3 ELSE mp - 9
      y == yoe + era * 400 + (IF m <= 2 THEN 1 ELSE 0)
  IN  [year |-> y, month |-> m, date |-> d]

DecChars == <<"0", "1", "2", "3", "4", "5", "6", "7", "8", "9">>

\* n >= 0 written with at least width decimal digits
RECURSIVE padStart(_, _)
padStart(n, width) ==
  IF width <= 1 /\ n < 10 THEN <<DecChars[n + 1]>>
  ELSE padStart(n \div 10, width - 1) \o <<DecChars[(n % 10) + 1]>>

\* YYYY, or the sign and six digits outside 0..9999
isoYear(y) ==
  IF y >= 0 /\ y <= 9999 THEN padStart(y, 4)
  ELSE (IF y < 0 THEN <<"-">> ELSE <<"+">>) \o padStart(IF y < 0 THEN -y ELSE y, 6)

\* YYYY-MM-DDTHH:mm:ss.sssZ of a valid time value
isoString(n) ==
  LET dt == dayAndTime(n)
      c == civilFromDays(dt.day)
  IN  isoYear(c.year) \o <<"-">> \o padStart(c.month, 2) \o <<"-">>
        \o padStart(c.date, 2) \o <<"T">>
        \o padStart(dt.ms \div 3600000, 2) \o <<":">>
        \o padStart((dt.ms \div 60000) % 60, 2) \o <<":">>
        \o padStart((dt.ms \div 1000) % 60, 2) \o <<".">>
        \o padStart(dt.ms % 1000, 3) \o <<"Z">>

\* Date.prototype.toISOString: throws a RangeError on an invalid date
toISOString(n) == IF ~validDate(n) THEN Throw ELSE Return(isoString(n))

(***************************************************************************)
(* formatTimestamp                                                         *)
(***************************************************************************)
InvalidTimestamp ==
  <<"I", "n", "v", "a", "l", "i", "d", " ", "t", "i", "m", "e", "s", "t", "a", "m", "p">>

UnknownFormat ==
  <<"U", "n", "k", "n", "o", "w", "n", " ", "f", "o", "r", "m", "a", "t">>

\* the same interval counted in seconds
uuidEpochOffset_Seconds ==
  Num(FALSE, MagOfDecimal(<<1, 2, 2, 1, 9, 2, 9, 2, 8, 0, 0>>))

\* 122192928000000000n, the 100 ns intervals from 1582-10-15 to 1970-01-01
uuidEpochOffset ==
  Num(FALSE, MagOfDecimal(<<1, 2, 2, 1, 9, 2, 9, 2, 8, 0, 0, 0, 0, 0, 0, 0, 0, 0>>))

\* BigInt(n) of a Number throws a RangeError when n is NaN
bigIntThrows(n) == n.nan

\* the version === 1 branch of the try block
formatV1_FloorDivision(timestamp) ==
  LET timeLow == parseInt16(substring(timestamp, 0, 8))
      timeMid == parseInt16(substring(timestamp, 9, 13))
      timeHiOnly == NumAndMask(parseInt16(substring(timestamp, 14, 18)), 4095)
  IN  IF bigIntThrows(timeMid) \/ bigIntThrows(timeLow) THEN Throw
      ELSE LET fullTimestamp ==
                 NumOr(NumOr(NumShlDigits(NumOfInt(timeHiOnly), 12),
                             NumShlDigits(timeMid, 8)), timeLow)
               diff == NumSub(fullTimestamp, uuidEpochOffset)
               dm == MagDivMod(diff.mag, 10000)
           IN  toISOString(IF diff.neg /\ dm.rem # 0
                           THEN Num(TRUE, MagAdd(dm.quot, <<1>>))
                           ELSE Num(diff.neg, dm.quot))

formatV1_NoEpochOffset(timestamp) ==
  LET timeLow == parseInt16(substring(timestamp, 0, 8))
      timeMid == parseInt16(substring(timestamp, 9, 13))
      timeHiOnly == NumAndMask(parseInt16(substring(timestamp, 14, 18)), 4095)
  IN  IF bigIntThrows(timeMid) \/ bigIntThrows(timeLow) THEN Throw
      ELSE LET fullTimestamp ==
                 NumOr(NumOr(NumShlDigits(NumOfInt(timeHiOnly), 12),
                             NumShlDigits(timeMid, 8)),
                       timeLow)
           IN  toISOString(NumDivTrunc(fullTimestamp, 10000))

formatV1_NoMask(timestamp) ==
  LET timeLow == parseInt16(substring(timestamp, 0, 8))
      timeMid == parseInt16(substring(timestamp, 9, 13))
      timeHiAndVersion == parseInt16(substring(timestamp, 14, 18))
  IN  IF bigIntThrows(timeHiAndVersion) \/ bigIntThrows(timeMid) \/ bigIntThrows(timeLow)
      THEN Throw
      ELSE LET fullTimestamp ==
                 NumOr(NumOr(NumShlDigits(timeHiAndVersion, 12),
                             NumShlDigits(timeMid, 8)), timeLow)
               unixTimestamp == NumDivTrunc(NumSub(fullTimestamp, uuidEpochOffset), 10000)
           IN  toISOString(unixTimestamp)

formatV1(timestamp) ==
  LET timeLow == substring(timestamp, 0, 8)
      timeMid == substring(timestamp, 9, 13)
      timeHi == substring(timestamp, 14, 18)
      timeHiAndVersion == parseInt16(timeHi)
      timeHiOnly == NumAndMask(timeHiAndVersion, 4095)
      mid == parseInt16(timeMid)
      low == parseInt16(timeLow)
  IN  IF bigIntThrows(mid) \/ bigIntThrows(low) THEN Throw
      ELSE LET fullTimestamp ==
                 NumOr(NumOr(NumShlDigits(NumOfInt(timeHiOnly), 12),
                             NumShlDigits(mid, 8)), low)
               unixTimestamp == NumDivTrunc(NumSub(fullTimestamp, uuidEpochOffset), 10000)
           IN  toISOString(unixTimestamp)

\* the version === 7 branch of the try block
formatV7_Seconds(timestamp) ==
  LET timestampMs == parseInt16(timestamp)
  IN  IF timestampMs.nan THEN Throw
      ELSE toISOString(Num(timestampMs.neg, MagMulSmall(timestampMs.mag, 1000)))

formatV7(timestamp) ==
  LET timestampMs == parseInt16(timestamp)
  IN  toISOString(timestampMs)

\* the try block: it returns in the branches of version 1 and 7 and completes
\* without returning otherwise
tryBlock_AlsoV6(timestamp, version) ==
  IF version \in {1, 6} THEN formatV1(timestamp)
  ELSE IF version = 7 THEN formatV7(timestamp)
  ELSE Completed

tryBlock(timestamp, version) ==
  IF version = 1 THEN formatV1(timestamp)
  ELSE IF version = 7 THEN formatV7(timestamp)
  ELSE Completed

\* the catch clause and the return after it; without the try statement an
\* error leaves the function
formatTimestamp_NoCatch(timestamp, version) ==
  LET r == tryBlock(timestamp, version)
  IN  IF r.kind = "normal" THEN Return(UnknownFormat) ELSE r

formatTimestamp(timestamp, version) ==
  LET r == tryBlock(timestamp, version)
  IN  IF r.kind = "throw" THEN Return(InvalidTimestamp)
      ELSE IF r.kind = "normal" THEN Return(UnknownFormat)
      ELSE r

(***************************************************************************)
(* Arguments of formatTimestamp                                            *)
(***************************************************************************)
\* the versions passed range over -1..MaxVersion
MaxVersion == 16

Versions == (-1)..MaxVersion

TsLows ==
  {<<"0", "0", "0", "0", "0", "0", "0", "0">>,
    <<"1", "3", "8", "1", "4", "0", "0", "0">>,
    <<"1", "3", "8", "1", "3", "f", "f", "f">>,
    <<"4", "a", "7", "8", "4", "0", "0", "0">>,
    <<"4", "A", "7", "8", "4", "0", "0", "0">>,
    <<"f", "f", "f", "f", "f", "f", "f", "f">>}

TsMids ==
  {<<"0", "0", "0", "0">>,
    <<"1", "d", "d", "2">>,
    <<"4", "b", "c", "4">>,
    <<"f", "f", "f", "f">>}

\* version digit and the three digits of time-hi
TsHis ==
  {<<v>> \o h : v \in {"0", "1", "7", "f"},
               h \in {<<"0", "0", "0">>,
                   <<"1", "b", "2">>,
                   <<"1", "e", "b">>,
                   <<"f", "f", "f">>}}

Join3(low, mid, hi) == low \o <<"-">> \o mid \o <<"-">> \o hi

\* time-low(8 hex)-time-mid(4 hex)-time-hi(4 hex)
TsV1Raws == {Join3(l, m, h) : l \in TsLows, m \in TsMids, h \in TsHis}

TsGood == <<"4", "a", "7", "8", "4", "0", "0", "0", "-", "4", "b", "c", "4", "-", "1", "1", "e", "b">>

\* a component that is not a hex number, that is one only in part, or that
\* carries a sign, a blank or a 0x prefix
TsBadLows ==
  {<<"z", "z", "z", "z", "z", "z", "z", "z">>,
    <<"1", "2", "g", "4", "5", "6", "7", "8">>,
    <<"-", "1", "2", "3", "4", "5", "6", "7">>,
    <<" ", "1", "2", "3", "4", "5", "6", "7">>,
    <<"0", "x", "1", "2", "3", "4", "5", "6">>}

TsBadMids ==
  {<<"z", "z", "z", "z">>,
    <<"1", "2", "g", "4">>,
    <<"-", "1", "2", "3">>}

TsBadHis ==
  {<<"z", "z", "z", "z">>,
    <<"1", "g", "0", "0">>,
    <<"-", "1", "2", "3">>}

\* one component replaced, or the text cut before a component
TsV1Malformed ==
  {Join3(l, SubSeq(TsGood, 10, 13), SubSeq(TsGood, 15, 18)) : l \in TsBadLows}
  \cup {Join3(SubSeq(TsGood, 1, 8), m, SubSeq(TsGood, 15, 18)) : m \in TsBadMids}
  \cup {Join3(SubSeq(TsGood, 1, 8), SubSeq(TsGood, 10, 13), h) : h \in TsBadHis}
  \cup {SubSeq(TsGood, 1, n) : n \in {0, 8, 9, 13, 14}}

\* 12 hex digits
TsV7Raws ==
  {h \o l : h \in {<<"0", "0", "0", "0", "0", "0">>,
                       <<"0", "1", "7", "6", "b", "b">>,
                       <<"0", "1", "7", "6", "B", "B">>,
                       <<"f", "f", "f", "f", "f", "f">>},
            l \in {<<"0", "0", "0", "0", "0", "0">>,
                       <<"3", "e", "7", "0", "0", "0">>,
                       <<"3", "E", "7", "0", "0", "0">>,
                       <<"f", "f", "f", "f", "f", "f">>}}

TsV7Malformed ==
  {<<"z", "z">>,
    <<"1", "2", "z", "z">>,
    <<"0", "x", "1", "f">>,
    <<" ", "1", "F">>,
    <<"-", "1">>,
    <<"f", "f", "f", "f", "f", "f", "f", "f", "f", "f", "f", "f", "f", "f", "f", "f">>,
    <<"1", "e", "b", "2", "0", "8", "c", "2", "d", "c", "0", "0", "0", "0">>,
    <<"1", "e", "b", "2", "0", "8", "c", "2", "d", "c", "0", "0", "0", "1">>,
    <<"-", "1", "e", "b", "2", "0", "8", "c", "2", "d", "c", "0", "0", "0", "1">>,
    <<"g", "1", "7", "6", "b", "b", "3", "e", "7", "0", "0", "0">>}

TsRaws == TsV1Raws \cup TsV1Malformed \cup TsV7Raws \cup TsV7Malformed

(***************************************************************************)
(* One call of formatTimestamp                                             *)
(***************************************************************************)
InitFormat ==
  /\ uuid = <<>>
  /\ analysis = Null
  /\ pc = "idle"
  /\ tsRaw \in TsRaws
  /\ tsVersion \in Versions
  /\ tsResult = Completed
  /\ tsPc = "call"
  /\ GenerateIdle
  /\ AppIdle

Format ==
  /\ tsPc = "call"
  /\ tsResult' = formatTimestamp(tsRaw, tsVersion)
  /\ tsPc' = "return"
  /\ UNCHANGED <<tsRaw, tsVersion, analyzeVars, genVars, appVars>>

NextFormat == Format

SpecFormat == InitFormat /\ [][NextFormat]_vars

(***************************************************************************)
(* The uuid library (v1, v4, v7 of the package 'uuid'): what a call returns *)
(* for the clock and the random bytes it reads.  A text is the canonical    *)
(* lowercase form 8-4-4-4-12.                                               *)
(***************************************************************************)
HexChars == <<"0", "1", "2", "3", "4", "5", "6", "7", "8", "9",
              "a", "b", "c", "d", "e", "f">>

\* the low n hex digits of a magnitude, as lowercase text
hexText(m, n) ==
  CHOOSE text \in {[k \in 1..n |-> HexChars[p[Len(p) - n + k] + 1]] : p \in {MagPad(m, n)}} : TRUE

\* the two top bits of the clock-seq-high byte set to 10
forceVariant(c) == HexChars[(parseIntHexChar(c) % 4) + 8 + 1]

\* 8-4-4-4-12 (h holds the value of hex, so that hex is evaluated once)
canonicalText(hex) ==
  CHOOSE text \in
    {SubSeq(h, 1, 8) \o <<"-">> \o SubSeq(h, 9, 12) \o <<"-">> \o SubSeq(h, 13, 16)
     \o <<"-">> \o SubSeq(h, 17, 20) \o <<"-">> \o SubSeq(h, 21, 32) : h \in {hex}} : TRUE

\* milliseconds from 1582-10-15 to 1970-01-01
gregorianOffsetMs == MagOfDecimal(<<1, 2, 2, 1, 9, 2, 9, 2, 8, 0, 0, 0, 0, 0>>)

\* 60-bit count of 100 ns intervals since 1582-10-15: time-low, time-mid,
\* version 1 and time-hi; clock sequence and node from the random bytes
uuidv1(env) ==
  LET ticks == MagAdd(MagMulSmall(MagAdd(env.msecs, gregorianOffsetMs), 10000),
                      MagOfInt(env.nsecs))
      t == hexText(ticks, 15)
  IN  canonicalText(SubSeq(t, 8, 15) \o SubSeq(t, 4, 7) \o <<"1">> \o SubSeq(t, 1, 3)
                    \o <<forceVariant(env.rnds[17])>> \o SubSeq(env.rnds, 18, 32))

\* random bytes with the version digit 4 and the variant bits set
uuidv4(env) ==
  canonicalText(SubSeq(env.rnds, 1, 12) \o <<"4">> \o SubSeq(env.rnds, 14, 16)
                \o <<forceVariant(env.rnds[17])>> \o SubSeq(env.rnds, 18, 32))

\* 48 bits of Unix milliseconds, version 7, random bytes with the variant bits set
uuidv7(env) ==
  canonicalText(hexText(env.msecs, 12) \o <<"7">> \o SubSeq(env.rnds, 14, 16)
                \o <<forceVariant(env.rnds[17])>> \o SubSeq(env.rnds, 18, 32))

(***************************************************************************)
(* generateUuid: env is what the library call reads, the clock (msecs,      *)
(* nsecs) and 16 random bytes (rnds, 32 hex digits)                         *)
(***************************************************************************)
generateUuid_NoCase1(version, env) ==
  CASE version = "4" -> uuidv4(env)
    [] version = "7" -> uuidv7(env)
    [] OTHER -> uuidv4(env)

generateUuid_DefaultV7(version, env) ==
  CASE version = "1" -> uuidv1(env)
    [] version = "4" -> uuidv4(env)
    [] OTHER -> uuidv7(env)

generateUuid(version, env) ==
  CASE version = "1" -> uuidv1(env)
    [] version = "4" -> uuidv4(env)
    [] version = "7" -> uuidv7(env)
    [] OTHER -> uuidv4(env)

(***************************************************************************)
(* A generated UUID, analysed and its date shown: generateUuid, then        *)
(* analyzeUUID on the result, then formatTimestamp on the timestamp of the  *)
(* analysis                                                                 *)
(***************************************************************************)
\* the versions a caller can ask for: the three of the type and others
Requests == {"1", "4", "7", "0", "2", "6", "8", "v4", ""}

\* Date.now() in hex digits: 0 (1970-01-01), 999, 1609459199999 and
\* 1609459200000 (the last instant of 2020 and the first of 2021),
\* 1793620800123 (2026-11-02), 4102444800000 (2100-01-01), and
\* 103072857660683, the last millisecond 60 bits of ticks hold in full
Clocks ==
  { <<>>,
    <<3, 14, 7>>,
    <<1, 7, 6, 11, 11, 3, 14, 6, 15, 15, 15>>,
    <<1, 7, 6, 11, 11, 3, 14, 7, 0, 0, 0>>,
    <<1, 10, 1, 9, 12, 2, 1, 7, 2, 7, 11>>,
    <<3, 11, 11, 2, 12, 12, 3, 13, 8, 0, 0>>,
    <<5, 13, 11, 14, 8, 5, 1, 1, 1, 13, 0, 11>> }

\* the count of 100 ns intervals within the millisecond
SubTicks == {0, 1, 9999}

RandomBytes ==
  { [k \in 1..UuidLen |-> "0"],
    [k \in 1..UuidLen |-> "f"],
    [k \in 1..UuidLen |-> IF k % 2 = 1 THEN "5" ELSE "a"],
    [k \in 1..UuidLen |-> IF k % 2 = 1 THEN "a" ELSE "5"],
    Sample }

Envs == [msecs : Clocks, nsecs : SubTicks, rnds : RandomBytes]

InitGenerate ==
  /\ uuid = <<>>
  /\ analysis = Null
  /\ pc = "idle"
  /\ FormatIdle
  /\ genVersion \in Requests
  /\ wallClock \in Clocks
  /\ genPc = "call"
  /\ AppIdle

\* generateUuid(version); the result is the text given to analyzeUUID
Generate ==
  /\ genPc = "call"
  /\ \E env \in Envs :
       /\ env.msecs = wallClock
       /\ uuid' = generateUuid(genVersion, env)
  /\ genPc' = "return"
  /\ pc' = "call"
  /\ UNCHANGED <<analysis, formatVars, genVersion, wallClock, appVars>>

\* the Date row of the analysis: shown for a valid analysis with a timestamp
renderDate ==
  /\ pc = "return"
  /\ tsPc = "idle"
  /\ analysis.isValid
  /\ "timestamp" \in DOMAIN analysis
  /\ analysis.timestamp # <<>>
  /\ tsRaw' = analysis.timestamp
  /\ tsVersion' = analysis.version
  /\ tsResult' = formatTimestamp(analysis.timestamp, analysis.version)
  /\ tsPc' = "return"
  /\ UNCHANGED <<analyzeVars, genVars, appVars>>

NextGenerate == Generate \/ Analyze \/ renderDate

SpecGenerate == InitGenerate /\ [][NextGenerate]_vars

(***************************************************************************)
(* Vocabulary of the properties of formatTimestamp: instants are compared  *)
(* as a day number and the milliseconds within the day, and wide values    *)
(* are read in decimal.                                                    *)
(***************************************************************************)
FormatReturned == tsPc = "return"

TextInvalidTimestamp == <<"I", "n", "v", "a", "l", "i", "d", " ", "t", "i", "m", "e", "s", "t", "a", "m", "p">>

TextUnknownFormat == <<"U", "n", "k", "n", "o", "w", "n", " ", "f", "o", "r", "m", "a", "t">>

Sentinels == {TextInvalidTimestamp, TextUnknownFormat}

IsDecimalDigit(c) == \E n \in 1..10 : c = LowerDigits[n]

AllHex(s) == \A i \in DOMAIN s : IsHexDigit(s[i])

\* the value of a short run of decimal digit characters
RECURSIVE DecimalValue(_)
DecimalValue(s) ==
  IF s = <<>> THEN 0
  ELSE 10 * DecimalValue(SubSeq(s, 1, Len(s) - 1)) + DigitValue(s[Len(s)])

\* [+-YY]YYYY-MM-DDTHH:MM:SS.mmmZ: the text after the year, and the year
IsoTail(s) == SubSeq(s, Len(s) - 19, Len(s))

IsoYearPart(s) == SubSeq(s, 1, Len(s) - 20)

IsIsoInstant(s) ==
  /\ Len(s) \in {24, 27}
  /\ LET t == IsoTail(s)
         y == IsoYearPart(s)
     IN  /\ t[1] = "-" /\ t[4] = "-" /\ t[7] = "T" /\ t[10] = ":" /\ t[13] = ":"
         /\ t[16] = "." /\ t[20] = "Z"
         /\ \A i \in {2, 3, 5, 6, 8, 9, 11, 12, 14, 15, 17, 18, 19} : IsDecimalDigit(t[i])
         /\ IF Len(y) = 4 THEN \A i \in 1..4 : IsDecimalDigit(y[i])
            ELSE y[1] \in {"+", "-"} /\ \A i \in 2..7 : IsDecimalDigit(y[i])
         /\ DecimalValue(SubSeq(t, 2, 3)) \in 1..12
         /\ DecimalValue(SubSeq(t, 5, 6)) \in 1..31
         /\ DecimalValue(SubSeq(t, 8, 9)) \in 0..23
         /\ DecimalValue(SubSeq(t, 11, 12)) \in 0..59
         /\ DecimalValue(SubSeq(t, 14, 15)) \in 0..59

\* days from 1970-01-01 to the given date of the proleptic Gregorian calendar
DaysFromCivil(year, month, date) ==
  LET y == IF month <= 2 THEN year - 1 ELSE year
      era == y \div 400
      yoe == y - era * 400
      doy == (153 * (IF month > 2 THEN month - 3 ELSE month + 9) + 2) \div 5 + date - 1
      doe == yoe * 365 + yoe \div 4 - yoe \div 100 + doy
  IN  era * 146097 + doe - 719468

\* the instant an ISO text denotes: day number and milliseconds within the day
InstantOfIso(s) ==
  LET t == IsoTail(s)
      y == IsoYearPart(s)
      year == IF Len(y) = 4 THEN DecimalValue(y)
              ELSE IF y[1] = "-" THEN -DecimalValue(Tail(y)) ELSE DecimalValue(Tail(y))
  IN  [day |-> DaysFromCivil(year, DecimalValue(SubSeq(t, 2, 3)),
                             DecimalValue(SubSeq(t, 5, 6))),
       ms |-> DecimalValue(SubSeq(t, 8, 9)) * 3600000
              + DecimalValue(SubSeq(t, 11, 12)) * 60000
              + DecimalValue(SubSeq(t, 14, 15)) * 1000
              + DecimalValue(SubSeq(t, 17, 19))]

\* decimal digits (most significant first) of ds * k + c, for small k and c
RECURSIVE DecMulAdd(_, _, _)
DecMulAdd(ds, k, c) ==
  IF ds = <<>> THEN (IF c = 0 THEN <<>> ELSE DecMulAdd(<<>>, k, c \div 10) \o <<c % 10>>)
  ELSE LET v == ds[Len(ds)] * k + c
       IN  IF v < 10 THEN DecMulAdd(SubSeq(ds, 1, Len(ds) - 1), k, 0) \o <<v>>
           ELSE DecMulAdd(SubSeq(ds, 1, Len(ds) - 1), k, v \div 10) \o <<v % 10>>

\* decimal digits of the number a run of hex digit characters denotes
RECURSIVE DecOfHex(_)
DecOfHex(s) ==
  IF s = <<>> THEN <<>>
  ELSE DecMulAdd(DecOfHex(SubSeq(s, 1, Len(s) - 1)), 16, DigitValue(s[Len(s)]))

\* quotient and remainder of a decimal digit sequence by a small divisor
RECURSIVE DecDivMod(_, _, _, _)
DecDivMod(ds, d, quot, rem) ==
  IF ds = <<>> THEN [quot |-> quot, rem |-> rem]
  ELSE LET cur == rem * 10 + Head(ds)
       IN  DecDivMod(Tail(ds), d, quot * 10 + cur \div d, cur % d)

DecDropLast(ds, n) == SubSeq(ds, 1, Len(ds) - n)

DecLast(ds, n) ==
  DecDivMod(SubSeq(ds, Max(1, Len(ds) - n + 1), Len(ds)), 1, 0, 0).quot

\* a count of milliseconds in decimal, split into whole days and the rest
DayAndMs(ds) ==
  LET secs == DecDivMod(DecDropLast(ds, 3), 86400, 0, 0)
  IN  [day |-> secs.quot, ms |-> secs.rem * 1000 + DecLast(ds, 3)]

\* one millisecond later
NextMs(i) ==
  IF i.ms + 1 = 86400000 THEN [day |-> i.day + 1, ms |-> 0]
  ELSE [day |-> i.day, ms |-> i.ms + 1]

\* the day number of 1582-10-15, where the count of 100 ns ticks starts
GregorianDay == DaysFromCivil(1582, 10, 15)

\* the instant of a count of 100 ns ticks since 1582-10-15, given in decimal:
\* the ticks make whole milliseconds, rounded towards 1970-01-01
InstantOfTicks(ds) ==
  LET whole == DayAndMs(DecDropLast(ds, 4))
      since == IF whole.day + GregorianDay < 0 /\ DecLast(ds, 4) > 0
               THEN NextMs(whole) ELSE whole
  IN  [day |-> since.day + GregorianDay, ms |-> since.ms]

\* raw is time-low(8 hex)-time-mid(4 hex)-time-hi(4 hex)
IsV1Raw(s) ==
  /\ Len(s) = 18
  /\ s[9] = "-" /\ s[14] = "-"
  /\ \A i \in (1..18) \ {9, 14} : IsHexDigit(s[i])

\* the 60-bit tick count of such a raw text, as 15 hex digits: the low three
\* digits of time-hi, then time-mid, then time-low
TicksHex(s) == SubSeq(s, 16, 18) \o SubSeq(s, 10, 13) \o SubSeq(s, 1, 8)

IsV7Raw(s) == Len(s) = 12 /\ AllHex(s)

\* C11: formatTimestamp never raises: for every raw text and version it
\* returns a text that is an ISO-8601 UTC instant, "Invalid timestamp" or
\* "Unknown format".
C11_AlwaysReturnsText ==
  FormatReturned =>
    /\ tsResult.kind = "return"
    /\ \/ tsResult.value \in Sentinels
       \/ IsIsoInstant(tsResult.value)

C11_Witness ==
  /\ FormatReturned
  /\ tsVersion = 7
  /\ Len(tsRaw) = 16 /\ AllHex(tsRaw)
  /\ tsResult = [kind |-> "return", value |-> TextInvalidTimestamp]

\* C12: for a version other than 1 and 7 the result is "Unknown format"
\* whatever the raw text is, and for version 1 or 7 it never is.
C12_UnknownFormatIffOtherVersion ==
  FormatReturned =>
    (tsResult.value = TextUnknownFormat <=> tsVersion \notin {1, 7})

C12_Witness ==
  /\ FormatReturned
  /\ tsVersion = 6
  /\ IsV1Raw(tsRaw)
  /\ tsResult.value = TextUnknownFormat

\* a component of a raw text that cannot be parsed: empty, or not a
\* hexadecimal number
NotHexNumber(s) == s = <<>> \/ ~AllHex(s)

\* the characters of s at 0-based positions a..b-1 that exist
Part(s, a, b) == SubSeq(s, a + 1, IF b <= Len(s) THEN b ELSE Len(s))

Unparseable(raw, version) ==
  IF version = 1
  THEN \/ NotHexNumber(Part(raw, 0, 8))
       \/ NotHexNumber(Part(raw, 9, 13))
       \/ NotHexNumber(Part(raw, 14, 18))
  ELSE NotHexNumber(raw)

\* C13: for version 1 or 7, a raw text that cannot be parsed (time-low,
\* time-mid or time-hi of a version-1 text, or the whole version-7 text, empty
\* or not a hexadecimal number) gives "Invalid timestamp", never a date.
C13_UnparseableIsInvalid ==
  FormatReturned /\ tsVersion \in {1, 7} /\ Unparseable(tsRaw, tsVersion) =>
    tsResult = [kind |-> "return", value |-> TextInvalidTimestamp]

\* C14: for version 1 and a raw text time-low(8 hex)-time-mid(4 hex)-
\* time-hi(4 hex) the result is the instant of the 60-bit tick count made of
\* the low 12 bits of time-hi, time-mid and time-low, counted in 100 ns from
\* 1582-10-15 and cut to whole milliseconds; the top (version) digit of
\* time-hi has no effect.
C14_Version1Instant ==
  FormatReturned /\ tsVersion = 1 /\ IsV1Raw(tsRaw) =>
    /\ tsResult.kind = "return"
    /\ IsIsoInstant(tsResult.value)
    /\ InstantOfIso(tsResult.value) = InstantOfTicks(DecOfHex(TicksHex(tsRaw)))

C14_Witness ==
  /\ FormatReturned
  /\ tsVersion = 1
  /\ tsRaw = <<"f", "f", "f", "f", "f", "f", "f", "f", "-", "f", "f", "f", "f", "-", "f", "f", "f", "f">>
  /\ IsIsoInstant(tsResult.value)
  /\ InstantOfIso(tsResult.value).day > 0

\* C15: for version 7 and a raw text of 12 hex digits the result is the
\* instant that many milliseconds after 1970-01-01T00:00:00Z, with no offset
\* and no scaling.
C15_Version7Instant ==
  FormatReturned /\ tsVersion = 7 /\ IsV7Raw(tsRaw) =>
    /\ tsResult.kind = "return"
    /\ IsIsoInstant(tsResult.value)
    /\ InstantOfIso(tsResult.value) = DayAndMs(DecOfHex(tsRaw))

C15_Witness ==
  /\ FormatReturned
  /\ tsVersion = 7
  /\ tsRaw = <<"f", "f", "f", "f", "f", "f", "f", "f", "f", "f", "f", "f">>
  /\ Len(tsResult.value) = 27

\* the raw text of 138287520000000000 ticks (0x1eb4bc44a784000), version digit 1
Ticks2021 == <<"4", "a", "7", "8", "4", "0", "0", "0", "-", "4", "b", "c", "4", "-", "1", "1", "e", "b">>

Text2021 == <<"2", "0", "2", "1", "-", "0", "1", "-", "0", "1", "T", "0", "0", ":", "0", "0", ":", "0", "0", ".", "0", "0", "0", "Z">>

\* C16: for version 1 and the raw text of the tick count of
\* 2021-01-01T00:00:00.000Z (138287520000000000 ticks of 100 ns since
\* 1582-10-15, Unix millisecond 1609459200000) the result is exactly
\* "2021-01-01T00:00:00.000Z".
C16_Frozen2021 ==
  FormatReturned /\ tsVersion = 1 /\ tsRaw = Ticks2021 =>
    /\ DecOfHex(TicksHex(Ticks2021)) =
         <<1, 3, 8, 2, 8, 7, 5, 2, 0, 0, 0, 0, 0, 0, 0, 0, 0, 0>>
    /\ DaysFromCivil(2021, 1, 1) * 86400 = 1609459200
    /\ tsResult = [kind |-> "return", value |-> Text2021]

C16_Witness ==
  /\ FormatReturned
  /\ tsVersion = 1
  /\ tsRaw = Ticks2021
  /\ tsResult.value = Text2021

(***************************************************************************)
(* Properties of generated UUIDs                                           *)
(***************************************************************************)
Generated == genPc = "return"

\* the version a request for "1", "4" or "7" names
RequestedVersion == CASE genVersion = "1" -> 1 [] genVersion = "4" -> 4
                      [] genVersion = "7" -> 7 [] OTHER -> -1

\* lowercase hex digits in groups of 8, 4, 4, 4 and 12
IsCanonicalText(s) ==
  /\ Len(s) = 36
  /\ \A i \in 1..36 :
       IF i \in {9, 14, 19, 24} THEN s[i] = "-"
       ELSE \E n \in 1..16 : s[i] = LowerDigits[n]

\* decimal digits of a magnitude of hex digits
RECURSIVE DecOfMag(_)
DecOfMag(m) ==
  IF m = <<>> THEN <<>>
  ELSE DecMulAdd(DecOfMag(SubSeq(m, 1, Len(m) - 1)), 16, m[Len(m)])

\* the instant of the clock the generator read
ClockInstant == DayAndMs(DecOfMag(wallClock))

\* a few seconds, in milliseconds
FewSeconds == 3 * 1000

\* two instants at most d milliseconds apart, d below a day
Within(a, b, d) ==
  /\ a.day - b.day \in {-1, 0, 1}
  /\ LET diff == (a.day - b.day) * 86400000 + (a.ms - b.ms)
     IN  diff <= d /\ -diff <= d

\* the date of a generated UUID has been shown
DateShown == Generated /\ Returned /\ FormatReturned

\* C17: for a request of version 1, 4 or 7 the analysis of every UUID that
\* generateUuid returns is valid, has the requested version and has the
\* variant "RFC 4122".
C17_GeneratedRoundTrip ==
  Generated /\ Returned /\ genVersion \in {"1", "4", "7"} =>
    /\ analysis.isValid = TRUE
    /\ analysis.version = RequestedVersion
    /\ analysis.variant = "RFC 4122"

C17_Witness ==
  /\ Generated /\ Returned
  /\ genVersion = "1"
  /\ analysis.isValid
  /\ analysis.version = 1
  /\ Nibble(uuid, 16) = 11

\* C18: a request for a version other than 1, 4 and 7 returns a UUID all the
\* same, a version-4 one: canonical text with version digit 4 and the
\* variant bits 10.
C18_UnknownVersionGivesV4 ==
  Generated /\ genVersion \notin {"1", "4", "7"} =>
    /\ IsCanonicalText(uuid)
    /\ uuid[15] = "4"
    /\ uuid[20] \in {"8", "9", "a", "b"}
    /\ (Returned => analysis.isValid /\ analysis.version = 4
                    /\ VersionFields \cap DOMAIN analysis = {"randomBits"})

C18_Witness ==
  /\ Generated /\ Returned
  /\ genVersion = "6"
  /\ wallClock # <<>>
  /\ uuid[15] = "4"
  /\ analysis.version = 4

\* C19: for a version-1 UUID generated when the clock read t, formatTimestamp
\* of the timestamp of its analysis, with version 1, is a date within a few
\* seconds of t.
C19_Version1DateIsClock ==
  DateShown /\ genVersion = "1" =>
    /\ tsRaw = analysis.timestamp
    /\ tsVersion = 1
    /\ tsResult.kind = "return"
    /\ IsIsoInstant(tsResult.value)
    /\ Within(InstantOfIso(tsResult.value), ClockInstant, FewSeconds)

C19_Witness ==
  /\ DateShown
  /\ genVersion = "1"
  /\ ClockInstant = [day |-> DaysFromCivil(2026, 11, 2), ms |-> 43200123]
  /\ IsV1Raw(tsRaw)
  /\ InstantOfIso(tsResult.value) = ClockInstant

\* C20: for a version-7 UUID generated when the clock read t, formatTimestamp
\* of the timestamp of its analysis, with version 7, is a date within a few
\* seconds of t.
C20_Version7DateIsClock ==
  DateShown /\ genVersion = "7" =>
    /\ tsRaw = analysis.timestamp
    /\ tsVersion = 7
    /\ tsResult.kind = "return"
    /\ IsIsoInstant(tsResult.value)
    /\ Within(InstantOfIso(tsResult.value), ClockInstant, FewSeconds)

C20_Witness ==
  /\ DateShown
  /\ genVersion = "7"
  /\ ClockInstant = [day |-> DaysFromCivil(2020, 12, 31), ms |-> 86399999]
  /\ IsV7Raw(tsRaw)
  /\ InstantOfIso(tsResult.value) = ClockInstant

(***************************************************************************)
(* Claims about the record as a whole                                      *)
(***************************************************************************)
\* C25: the version-specific fields of a valid record partition the stripped
\* input: for version 7, timestamp followed by randomBits is hexString (12
\* and 20 digits); for version 1, timestamp without its two hyphens, followed
\* by clockSeq and node, is hexString; for version 4, randomBits is
\* hexString.
C25_FieldsPartitionInput ==
  Returned /\ WellFormed(uuid) =>
    /\ analysis.isValid
    /\ analysis.hexString = Stripped(uuid)
    /\ (Nibble(uuid, 12) = 7 =>
          /\ {"timestamp", "randomBits"} \subseteq DOMAIN analysis
          /\ Len(analysis.timestamp) = 12
          /\ Len(analysis.randomBits) = 20
          /\ analysis.timestamp \o analysis.randomBits = analysis.hexString)
    /\ (Nibble(uuid, 12) = 1 =>
          /\ {"timestamp", "clockSeq", "node"} \subseteq DOMAIN analysis
          /\ NonHyphenCount(analysis.timestamp) = Len(analysis.timestamp) - 2
          /\ Stripped(analysis.timestamp) \o analysis.clockSeq \o analysis.node
               = analysis.hexString)
    /\ (Nibble(uuid, 12) = 4 =>
          /\ "randomBits" \in DOMAIN analysis
          /\ analysis.randomBits = analysis.hexString)

C25_Witness ==
  /\ Returned
  /\ WellFormed(uuid)
  /\ Nibble(uuid, 12) = 1
  /\ Stripped(uuid) # uuid
  /\ analysis.clockSeq = Slice(Stripped(uuid), 16, 20)
  /\ Len(Stripped(analysis.timestamp) \o analysis.clockSeq \o analysis.node) = 32

\* C26: analyzeUUID ignores the number and the positions of hyphens: every
\* input whose stripped form is 32 hex digits yields a record with isValid
\* true, and that record is the one its stripped form yields, so any two
\* inputs with the same stripped form yield identical records, whatever
\* their grouping (hyphens elsewhere, leading, trailing, repeated or none).
C26_HyphensIgnored ==
  Returned /\ WellFormed(uuid) =>
    /\ analysis.isValid
    /\ analysis = analyzeUUID(Stripped(uuid))
    /\ \A other \in {SampleUuid, Stripped(SampleUuid)} :
         Stripped(other) = Stripped(uuid) => analysis = analyzeUUID(other)

C26_Witness ==
  /\ Returned
  /\ WellFormed(uuid)
  /\ Stripped(uuid) = Stripped(SampleUuid)
  /\ uuid \notin {SampleUuid, Stripped(SampleUuid)}
  /\ uuid[1] = "-"
  /\ uuid[2] = "-"
  /\ uuid[Len(uuid)] = "-"
  /\ analysis.isValid

(***************************************************************************)
(* The decoder on its own: an input is analysed and the Date row of a      *)
(* version 1 or 7 record is rendered                                       *)
(***************************************************************************)
Repeat(c) == [k \in 1..UuidLen |-> c]

\* 32 hex digits: the smallest and the largest value of every field, in
\* either case, and two mixed ones
DecodeBases ==
  {Repeat("0"), Repeat("f"), Repeat("F"), Repeat("7"), Repeat("8"), Repeat("1"),
   Sample, Mixed}

DecodeBodies ==
  {Put(b, 12, v) : b \in DecodeBases, v \in {"1", "7", "4", "6"}}

DecodeInputs ==
  DecodeBodies \cup {Hyphenate(b, Canonical, 1, 0) : b \in DecodeBodies}

InitDecode ==
  /\ uuid \in DecodeInputs
  /\ analysis = Null
  /\ pc = "call"
  /\ FormatIdle
  /\ GenerateIdle
  /\ AppIdle

NextDecode == Analyze \/ renderDate

SpecDecode == InitDecode /\ [][NextDecode]_vars

\* C27: for every valid record of version 1 or 7 the timestamp is there to
\* format, and formatTimestamp of it with the record's version returns a date
\* instant, never "Invalid timestamp" or "Unknown format": every 60-bit tick
\* count (also those before 1970) and every 48-bit millisecond value can be
\* rendered.
C27_ValidRecordHasDate ==
  Returned /\ WellFormed(uuid) /\ Nibble(uuid, 12) \in {1, 7} =>
    /\ analysis.isValid
    /\ analysis.version = Nibble(uuid, 12)
    /\ "timestamp" \in DOMAIN analysis
    /\ analysis.timestamp # <<>>
    /\ FormatReturned =>
         /\ tsRaw = analysis.timestamp
         /\ tsVersion = analysis.version
         /\ tsResult.kind = "return"
         /\ tsResult.value \notin Sentinels
         /\ IsIsoInstant(tsResult.value)
         /\ InstantOfIso(tsResult.value) =
              IF tsVersion = 1 THEN InstantOfTicks(DecOfHex(TicksHex(tsRaw)))
              ELSE DayAndMs(DecOfHex(tsRaw))

\* the largest tick count, 2^60 - 1: 5236-03-31T21:21:00.684Z
C27_Witness ==
  /\ Returned /\ FormatReturned
  /\ uuid = Put(Repeat("f"), 12, "1")
  /\ tsVersion = 1
  /\ InstantOfIso(tsResult.value) =
       [day |-> DaysFromCivil(5236, 3, 31), ms |-> 76860684]

(***************************************************************************)
(* The App component: state, handlers and the effect                       *)
(***************************************************************************)
\* String.prototype.trim
trim(s) ==
  IF \A i \in DOMAIN s : s[i] \in WhiteSpace THEN <<>>
  ELSE LET first == CHOOSE i \in DOMAIN s :
                      s[i] \notin WhiteSpace /\ \A j \in 1..(i - 1) : s[j] \in WhiteSpace
           last == CHOOSE i \in DOMAIN s :
                     s[i] \notin WhiteSpace /\ \A j \in (i + 1)..Len(s) : s[j] \in WhiteSpace
       IN  SubSeq(s, first, last)

\* the longest prefix of s made of decimal digits
DecimalPrefix(s) ==
  IF \A i \in DOMAIN s : s[i] \in Digits THEN s
  ELSE LET stop == CHOOSE i \in DOMAIN s :
                     s[i] \notin Digits /\ \A j \in 1..(i - 1) : s[j] \in Digits
       IN  SubSeq(s, 1, stop - 1)

RECURSIVE decimalValue(_)
decimalValue(digits) ==
  IF digits = <<>> THEN 0
  ELSE decimalValue(SubSeq(digits, 1, Len(digits) - 1)) * 10
       + parseIntHexChar(digits[Len(digits)])

\* parseInt(s, 10): leading white space is skipped, then a sign is accepted,
\* then the longest run of decimal digits is read; NaN when that run is empty
parseInt10(s) ==
  LET t == TrimStart(s)
      neg == t # <<>> /\ Head(t) = "-"
      u == IF t # <<>> /\ Head(t) \in {"+", "-"} THEN Tail(t) ELSE t
      digits == DecimalPrefix(u)
  IN  IF digits = <<>> THEN [nan |-> TRUE, int |-> 0]
      ELSE [nan |-> FALSE, int |-> IF neg THEN -decimalValue(digits) ELSE decimalValue(digits)]

isNaN(n) == n.nan

MathMin(a, b) == IF a <= b THEN a ELSE b

\* Math.min(100, isNaN(parsed) ? 1 : parsed) with parsed = parseInt(text, 10)
quantityOf(text) ==
  LET parsed == parseInt10(text)
  IN  MathMin(100, IF isNaN(parsed) THEN 1 ELSE parsed.int)

\* the length Array.from gives an array-like of length n
ToLength(n) == IF n < 0 THEN 0 ELSE n

\* what the library reads for its n-th UUID (n from 0): the clock, a count
\* within the millisecond and random bytes, never the same twice
LibraryEnv(n) ==
  [msecs |-> wallClock,
   nsecs |-> n,
   rnds |-> [k \in 1..UuidLen |-> IF k = UuidLen THEN HexChars[(n % 16) + 1]
                                  ELSE Sample[k]]]

\* what a handler created by the current render closes over
Closure(handler) ==
  [handler |-> handler,
   selectedVersion |-> selectedVersion,
   quantity |-> quantity,
   generatedUuids |-> generatedUuids]

\* s without its i-th element
Without(s, i) == SubSeq(s, 1, i - 1) \o SubSeq(s, i + 1, Len(s))

Range(s) == {s[i] : i \in DOMAIN s}

\* how many UUIDs the handlers may generate in all
MaxGenerated == 2

\* the digits typed into the quantity input, after an optional sign
MaxDigits == 2

\* disabled={isGenerating} of the two Generate buttons
generateDisabled_Never == FALSE

generateDisabled == isGenerating

batchDisabled == isGenerating

\* disabled={generatedUuids.length < 1} of Clear
clearDisabled == Len(generatedUuids) < 1

\* disabled={!uuidAnalysis?.isValid} of the copy button of the decoder
copyDisabled == ~(uuidAnalysis # Null /\ uuidAnalysis.isValid)

\* the effect body with no trim
effectResult_NoTrim(text) ==
  IF text # <<>> THEN analyzeUUID(text) ELSE Null

\* the effect body: what setUuidAnalysis is given for the input text
effectResult(text) ==
  IF trim(text) # <<>> THEN analyzeUUID(trim(text)) ELSE Null

\* useEffect(..., [uuidToAnalyze]): runs after a render in which
\* uuidToAnalyze changed, and before the next event of the user is handled
\* (no handler reads uuidAnalysis)
useEffect ==
  /\ effectDue
  /\ uuidAnalysis' = effectResult(uuidToAnalyze)
  /\ effectDue' = FALSE
  /\ UNCHANGED <<analyzeVars, formatVars, genVars, uuidToAnalyze, selectedVersion,
                 quantity, generatedUuids, isGenerating, pending, made, cleared>>

\* onChange of the decoder input
onChangeInput(text) ==
  /\ ~effectDue
  /\ uuidToAnalyze' = text
  /\ effectDue' = (effectDue \/ text # uuidToAnalyze)
  /\ UNCHANGED <<analyzeVars, formatVars, genVars, selectedVersion, quantity,
                 generatedUuids, uuidAnalysis, isGenerating, pending, made, cleared>>

\* onValueChange of the version toggle: value is '' when the active item is
\* clicked again
onValueChange(value) ==
  /\ ~effectDue
  /\ selectedVersion' = (IF value # "" THEN value ELSE selectedVersion)
  /\ UNCHANGED <<analyzeVars, formatVars, genVars, uuidToAnalyze, quantity,
                 generatedUuids, uuidAnalysis, isGenerating, pending, effectDue,
                 made, cleared>>

\* onChange of the quantity input
onChangeQuantity(text) ==
  /\ ~effectDue
  /\ quantity' = quantityOf(text)
  /\ UNCHANGED <<analyzeVars, formatVars, genVars, uuidToAnalyze, selectedVersion,
                 generatedUuids, uuidAnalysis, isGenerating, pending, effectDue,
                 made, cleared>>

\* a click on Generate UUID: handleGenerate up to its await
handleGenerate ==
  /\ ~effectDue
  /\ ~generateDisabled
  /\ made + 1 <= MaxGenerated
  /\ isGenerating' = TRUE
  /\ pending' = Append(pending, Closure("handleGenerate"))
  /\ UNCHANGED <<analyzeVars, formatVars, genVars, uuidToAnalyze, selectedVersion,
                 quantity, generatedUuids, uuidAnalysis, effectDue, made, cleared>>

\* isGenerating is left true
resumeGenerate_StaysGenerating ==
  \E i \in DOMAIN pending : \E h \in {pending[i]} :
    /\ h.handler = "handleGenerate"
    /\ \E env \in {LibraryEnv(made)} : \E newUuid \in {generateUuid(h.selectedVersion, env)} :
        /\ generatedUuids' = <<newUuid>> \o h.generatedUuids
        /\ uuidToAnalyze' = newUuid
        /\ effectDue' = (effectDue \/ newUuid # uuidToAnalyze)
        /\ made' = made + 1
        /\ pending' = Without(pending, i)
        /\ UNCHANGED <<analyzeVars, formatVars, genVars, selectedVersion, quantity,
                       uuidAnalysis, isGenerating, cleared>>

\* the version is read when the timer fires, not when the handler was made
resumeGenerate_CurrentVersion ==
  \E i \in DOMAIN pending : \E h \in {pending[i]} :
    /\ h.handler = "handleGenerate"
    /\ \E newUuid \in {generateUuid(selectedVersion, LibraryEnv(made))} :
        /\ generatedUuids' = <<newUuid>> \o h.generatedUuids
        /\ uuidToAnalyze' = newUuid
        /\ effectDue' = (effectDue \/ newUuid # uuidToAnalyze)
        /\ isGenerating' = FALSE
        /\ made' = made + 1
        /\ pending' = Without(pending, i)
        /\ UNCHANGED <<analyzeVars, formatVars, genVars, selectedVersion, quantity,
                       uuidAnalysis, cleared>>

\* the 200 ms timer has fired: handleGenerate from its await to its end, with
\* selectedVersion and generatedUuids as they were when the handler was made
resumeGenerate ==
  \E i \in DOMAIN pending : \E h \in {pending[i]} :
    /\ h.handler = "handleGenerate"
    /\ \E env \in {LibraryEnv(made)} : \E newUuid \in {generateUuid(h.selectedVersion, env)} :
        /\ generatedUuids' = <<newUuid>> \o h.generatedUuids
        /\ uuidToAnalyze' = newUuid
        /\ effectDue' = (effectDue \/ newUuid # uuidToAnalyze)
        /\ isGenerating' = FALSE
        /\ made' = made + 1
        /\ pending' = Without(pending, i)
        /\ UNCHANGED <<analyzeVars, formatVars, genVars, selectedVersion, quantity,
                       uuidAnalysis, cleared>>

\* a click on Generate Batch: handleGenerateBatch up to its await
handleGenerateBatch ==
  /\ ~effectDue
  /\ ~batchDisabled
  /\ made + ToLength(quantity) <= MaxGenerated
  /\ isGenerating' = TRUE
  /\ pending' = Append(pending, Closure("handleGenerateBatch"))
  /\ UNCHANGED <<analyzeVars, formatVars, genVars, uuidToAnalyze, selectedVersion,
                 quantity, generatedUuids, uuidAnalysis, effectDue, made, cleared>>

\* the 300 ms timer has fired: handleGenerateBatch from its await to its
\* end, with quantity, selectedVersion and generatedUuids as they were when
\* the handler was made
resumeGenerateBatch ==
  \E i \in DOMAIN pending : \E h \in {pending[i]} :
    /\ h.handler = "handleGenerateBatch"
    /\ \E batch \in {[k \in 1..ToLength(h.quantity) |->
                         generateUuid(h.selectedVersion, LibraryEnv(made + k - 1))]} :
        /\ generatedUuids' = batch \o h.generatedUuids
        /\ isGenerating' = FALSE
        /\ made' = made + Len(batch)
        /\ pending' = Without(pending, i)
        /\ UNCHANGED <<analyzeVars, formatVars, genVars, uuidToAnalyze, selectedVersion,
                       quantity, uuidAnalysis, effectDue, cleared>>

\* a click on Clear
handleClear ==
  /\ ~effectDue
  /\ ~clearDisabled
  /\ generatedUuids' = <<>>
  /\ cleared' = cleared \cup Range(generatedUuids)
  /\ UNCHANGED <<analyzeVars, formatVars, genVars, uuidToAnalyze, selectedVersion,
                 quantity, uuidAnalysis, isGenerating, pending, effectDue, made>>

\* what is typed or pasted into the decoder input: blanks, a text
\* that is no UUID and a UUID, with blanks around them
DecoderTexts ==
  {<<" ", " ">>, <<" ">> \o NotAUuid, <<" ", " ">> \o SampleUuid \o <<" ">>}

\* values of the version toggle: two of its items, and '' for a click on
\* the active item
ToggleValues == {"4", "7", ""}

\* e.target.value of the quantity input as the App is driven
TypedQuantities == {<<"2">>, <<"-", "5">>}

\* Date.now(): 1793620800123, 2026-11-02T12:00:00.123Z
AppClocks == {<<1, 10, 1, 9, 12, 2, 1, 7, 2, 7, 11>>}

\* texts of one to n decimal digits
DigitTexts(n) == UNION {[1..k -> Digits] : k \in 1..n}

\* e.g. target.value of the quantity input: an optional minus sign and
\* digits, and texts that are no integer
QuantityTexts ==
  DigitTexts(MaxDigits)
  \cup {<<"-">> \o t : t \in DigitTexts(MaxDigits)}
  \cup {<<>>, <<"a", "b", "c">>, <<"1", ".", "5">>, <<" ", "7">>, <<"+", "3">>,
        <<"1", "e", "3">>, <<"-">>, <<"1", "5", "0">>, <<"1", "0", "0">>, <<"1", "0", "1">>}

\* the App as mounted; only the quantity input is edited
InitQuantity ==
  /\ uuid = <<>>
  /\ analysis = Null
  /\ pc = "idle"
  /\ FormatIdle
  /\ GenerateIdle
  /\ AppIdle

NextQuantity == \E text \in QuantityTexts : onChangeQuantity(text)

SpecQuantity == InitQuantity /\ [][NextQuantity]_vars

InitApp ==
  /\ uuid = <<>>
  /\ analysis = Null
  /\ pc = "idle"
  /\ FormatIdle
  /\ genVersion = ""
  /\ genPc = "idle"
  /\ wallClock \in AppClocks
  /\ AppIdle

NextApp ==
  \/ handleGenerate
  \/ resumeGenerate
  \/ handleGenerateBatch
  \/ resumeGenerateBatch
  \/ handleClear
  \/ useEffect
  \/ \E text \in DecoderTexts : onChangeInput(text)
  \/ \E value \in ToggleValues : onValueChange(value)
  \/ \E text \in TypedQuantities : onChangeQuantity(text)

SpecApp == InitApp /\ [][NextApp]_vars

\* a timer that was set fires: a handler at its await is resumed
SpecAppLive ==
  SpecApp /\ WF_vars(resumeGenerate) /\ WF_vars(resumeGenerateBatch)

(***************************************************************************)
(* Claims about the App component                                          *)
(***************************************************************************)
\* the version digit of a canonical text
VersionDigit(text) == text[15]

\* the analysis shown belongs to the current decoder input
Settled == ~effectDue

\* C21: when a click on Generate UUID completes, the new UUID (a canonical
\* text that was not in the list and has the version selected at the click)
\* is the first element of the list and the value of the decoder input; and
\* the analysis shown for a decoder input that is the first element of the
\* list is valid with the version of its version digit.
C21_GenerateShowsNewUuid ==
  /\ [][\A i \in DOMAIN pending :
          (/\ pending[i].handler = "handleGenerate"
           /\ pending' = Without(pending, i)
           /\ pending[i].selectedVersion \in {"1", "4", "7"})
          => /\ generatedUuids' # <<>>
             /\ generatedUuids'[1] \notin Range(generatedUuids) \cup cleared
             /\ IsCanonicalText(generatedUuids'[1])
             /\ VersionDigit(generatedUuids'[1]) = pending[i].selectedVersion
             /\ uuidToAnalyze' = generatedUuids'[1]
             /\ effectDue']_vars
  /\ [](Settled /\ generatedUuids # <<>> /\ uuidToAnalyze = generatedUuids[1]
          => /\ uuidAnalysis # Null
             /\ uuidAnalysis.isValid
             /\ uuidAnalysis.hexString = Stripped(uuidToAnalyze)
             /\ uuidAnalysis.version = DigitValue(VersionDigit(uuidToAnalyze)))

\* the version toggled between the click and the completion: the UUID shown
\* has the version of the click
C21_Witness ==
  /\ Settled
  /\ made = 1
  /\ generatedUuids # <<>>
  /\ uuidToAnalyze = generatedUuids[1]
  /\ selectedVersion = "4"
  /\ uuidAnalysis # Null
  /\ uuidAnalysis.isValid
  /\ uuidAnalysis.version = 7

\* C22: when a click on Generate Batch completes, the list is exactly
\* quantity newly generated UUIDs, each a canonical text of the selected
\* version that was not in the list, followed by the entries the list had at
\* the click, in their order (quantity and version as they were at the
\* click).
C22_BatchPrependsQuantity ==
  [][\A i \in DOMAIN pending :
       (/\ pending[i].handler = "handleGenerateBatch"
        /\ pending' = Without(pending, i))
       => LET before == pending[i].generatedUuids
              n == Len(generatedUuids') - Len(before)
          IN  /\ n = pending[i].quantity
              /\ SubSeq(generatedUuids', n + 1, Len(generatedUuids')) = before
              /\ \A k \in 1..n :
                   /\ IsCanonicalText(generatedUuids'[k])
                   /\ VersionDigit(generatedUuids'[k]) = pending[i].selectedVersion
                   /\ generatedUuids'[k] \notin Range(before) \cup cleared
                   /\ \A j \in 1..n : j # k => generatedUuids'[j] # generatedUuids'[k]]_vars

\* C23: the batch quantity stays within 1..100: after any sequence of edits
\* of the quantity input (empty, non-numeric, zero, negative and over-100
\* entries included) the stored quantity is an integer from 1 to 100.
C23_QuantityWithinRange == quantity \in 1..100

\* C24: Clear removes all generated UUIDs: no UUID that was in the list at a
\* click on Clear is in the list at any later time, also when a Generate or
\* a Generate Batch started before the click completes after it.
C24_ClearedStayCleared == Range(generatedUuids) \cap cleared = {}

\* C28: at most one generation is pending at any time: while a handler waits
\* at its await, isGenerating is true and both Generate buttons are
\* disabled; a generation starts only when none is pending, and the list is
\* changed only by Clear or by the one pending handler as it finishes.
C28_OneGenerationAtATime ==
  /\ [](/\ Len(pending) <= 1
        /\ isGenerating = (pending # <<>>)
        /\ (pending # <<>> => generateDisabled /\ batchDisabled))
  /\ [][/\ Len(pending') > Len(pending) => pending = <<>> /\ isGenerating'
        /\ generatedUuids' # generatedUuids =>
             \/ generatedUuids' = <<>> /\ pending' = pending
             \/ Len(pending) = 1 /\ pending' = <<>> /\ ~isGenerating']_vars

\* a second generation waits for its timer, the first one done
C28_Witness ==
  /\ isGenerating
  /\ Len(pending) = 1
  /\ pending[1].handler = "handleGenerateBatch"
  /\ pending[1].generatedUuids # <<>>
  /\ made = 1
  /\ generateDisabled /\ batchDisabled

\* C29: every started generation finishes: a handler that waits at its await
\* is resumed when its timer fires, and then no handler waits and
\* isGenerating is false again, whatever the selected version and the stored
\* quantity are; the App never stays in the generating state forever.
C29_GenerationFinishes ==
  /\ (pending # <<>>) ~> (pending = <<>> /\ ~isGenerating)
  /\ isGenerating ~> ~isGenerating

\* both generations the bound allows have finished, the quantity negative
C29_Witness ==
  /\ ~isGenerating
  /\ pending = <<>>
  /\ quantity = -5
  /\ made = 2
  /\ selectedVersion = "4"
  /\ Len(generatedUuids) = 2

\* the positions of s that have a non-blank character at or before them and
\* one at or after them
Kept(s) ==
  {i \in DOMAIN s : /\ \E a \in 1..i : s[a] # " "
                    /\ \E b \in i..Len(s) : s[b] # " "}

\* s without its leading and trailing blanks
Trimmed(s) ==
  IF Kept(s) = {} THEN <<>>
  ELSE LET first == CHOOSE i \in Kept(s) : \A j \in Kept(s) : i <= j
       IN  [k \in 1..Cardinality(Kept(s)) |-> s[first + k - 1]]

CopyEnabled == ~copyDisabled

\* C30: after every change of the decoder input the effect is due, and once
\* it has run the analysis shown is analyzeUUID of the input without its
\* leading and trailing blanks, and null (nothing shown) exactly when that
\* trimmed input is empty; the copy button is enabled exactly when the
\* analysis shown is there and has isValid true.
C30_AnalysisFollowsInput ==
  /\ [][uuidToAnalyze' # uuidToAnalyze => effectDue']_vars
  /\ [](Settled =>
          /\ (uuidAnalysis = Null) = (Trimmed(uuidToAnalyze) = <<>>)
          /\ Trimmed(uuidToAnalyze) # <<>> =>
               /\ uuidAnalysis = analyzeUUID(Trimmed(uuidToAnalyze))
               /\ uuidAnalysis.isValid = WellFormed(Trimmed(uuidToAnalyze))
               /\ CopyEnabled = WellFormed(Trimmed(uuidToAnalyze)))
  /\ [](CopyEnabled = (uuidAnalysis # Null /\ uuidAnalysis.isValid))

\* a UUID pasted with blanks around it, after a generated one was shown
C30_Witness ==
  /\ Settled
  /\ made = 1
  /\ uuidToAnalyze = <<" ", " ">> \o SampleUuid \o <<" ">>
  /\ uuidAnalysis # Null
  /\ uuidAnalysis.isValid
  /\ uuidAnalysis.hexString = Stripped(SampleUuid)
  /\ CopyEnabled

====
